---- MODULE Spec2Model ----
(***************************************************************************)
(* live-gfx-data-server: a key-value store with pub/sub over WebSocket,    *)
(* written through to one JSON file per key (src/index.ts).                *)
(*                                                                         *)
(* The server is a single-threaded event loop: every handler runs without  *)
(* interruption up to its first await.  The only await of the server is    *)
(* `await persistKey(key, value)` in the two set paths, so a set call is   *)
(* three steps: accept (store.set, Bun.write issued), the disk write       *)
(* finishing (success or failure), and the continuation (server.publish,   *)
(* HTTP response).  Every other handler is one step.                       *)
(*                                                                         *)
(* Strings the code computes on (keys, file names) are sequences of        *)
(* one-character strings.  Topic membership (ws.subscribe, ws.unsubscribe, *)
(* server.publish, removal of a closed socket from its topics) is the      *)
(* runtime's pub/sub, modelled by `subs`.                                  *)
(***************************************************************************)
EXTENDS Naturals, Sequences, FiniteSets, TLC

\* Bound: the number of set calls accepted in one behaviour.
MaxCalls == 2

\* Bound: the number of WebSockets the hook creates in one behaviour.
MaxSockets == 3

\* Bound: subscribe and unsubscribe wait while this many messages of the
\* socket are yet to be handled by the server.
MaxInbox == 1

\* The WebSocket connections of a behaviour: those of the clients that
\* speak the protocol directly, and the sockets the hook creates
\* (`new WebSocket(url)`), in the order of their creation.
Conns == {"c1", "c2"}
SockNames == <<"h1", "h2", "h3", "h4">>
HookSocks == {SockNames[i] : i \in 1..MaxSockets}
Sockets == Conns \cup HookSocks

\* The ".json" of persistKey's `${key}.json` and of file.replace(".json", "").
DotJson == <<".", "j", "s", "o", "n">>

\* The keys clients use: "a" and "x.jsony" (a key that contains ".json").
KeyA == <<"a">>
KeyX == <<"x", ".", "j", "s", "o", "n", "y">>
Keys == {KeyA, KeyX}

\* The JSON values clients set.  The server never inspects a value, so the
\* n-th set call of a behaviour carries the n-th value and no two calls
\* carry the same one.
ValueOf(n) == <<"v", n>>

\* data.key of a message that has no key field: undefined.  It is no
\* string, and it differs from the key "undefined".
Undefined == <<"undefined">>

\* JSON null, as in `store.get(key) ?? null`.
JNull == <<"null">>

\* Map.get's undefined for a key the Map does not hold.
Absent == <<>>

\* A file that does not exist.
NoFile == <<>>

\* The text of a file that is no JSON (a write cut short, a file edited by
\* hand): Bun.file(path).json() rejects it.
Corrupt == <<"corrupt">>

----------------------------------------------------------------------------
(* Pure functions *)

\* The first index at which pat occurs in s, 0 when it does not occur.
IndexOf(s, pat) ==
    LET hits == {i \in 1..(Len(s) + 1 - Len(pat)) :
                    SubSeq(s, i, i + Len(pat) - 1) = pat}
    IN  IF hits = {} THEN 0 ELSE CHOOSE i \in hits : \A j \in hits : i <= j

\* String.prototype.replace(pat, rep) with a string pattern: the first
\* occurrence only.
Replace(s, pat, rep) ==
    LET i == IndexOf(s, pat)
    IN  IF i = 0 THEN s
        ELSE SubSeq(s, 1, i - 1) \o rep \o SubSeq(s, i + Len(pat), Len(s))

\* The template literal `${key}`: a string as it is, undefined as the
\* string "undefined".
Interpolate(key) ==
    IF key = Undefined THEN <<"u", "n", "d", "e", "f", "i", "n", "e", "d">> ELSE key

\* persistKey: the file of a key, join(CACHE_DIR, `${key}.json`).
FilePath(key) == Interpolate(key) \o DotJson

\* initializeStore: the key of a file, file.replace(".json", "").
KeyOfFile(file) == Replace(file, DotJson, <<>>)

\* Glob "*.json" in CACHE_DIR: a name that ends in ".json", is no dotfile
\* and has no path separator.
GlobMatches(file) ==
    /\ Len(file) >= Len(DotJson)
    /\ SubSeq(file, Len(file) - Len(DotJson) + 1, Len(file)) = DotJson
    /\ file[1] # "."
    /\ \A i \in 1..Len(file) : file[i] # "/"

\* JSON.stringify(value, null, 2): the text persistKey writes.
Stringify(value) == <<"json", value>>

\* Bun.file(path).json(): the value of a text, and whether the text has one
\* (json() rejects otherwise and initializeStore's catch logs it).
ParseJson(text) == text[2]
Parses(text) == text # NoFile /\ text # Corrupt

\* The keys initializeStore derives from the files of the clients' keys.
LoadedKeys == {KeyOfFile(FilePath(k)) : k \in Keys}

\* The files persistKey can write (for a key a client uses, a key a load
\* has put in the store, or no key), and the keys the store can hold.
Files == {FilePath(k) : k \in Keys \cup LoadedKeys \cup {Undefined}}
AllKeys == Keys \cup {Undefined} \cup {KeyOfFile(f) : f \in Files}

\* The keys that are strings: those a URL or a file name can give.
StringKeys == AllKeys \ {Undefined}

\* Outbound messages: JSON.stringify({ key, value }) and
\* JSON.stringify({ error }).
KV(key, value) == [key |-> key, value |-> value]
ErrorMsg(text) == [error |-> text]
InvalidFormat == ErrorMsg("Invalid message format")
MissingKey == ErrorMsg("Missing key")

\* `x ?? null`
OrNull(x) == IF x = Absent THEN JNull ELSE x

----------------------------------------------------------------------------
(* State *)

VARIABLES
    store,     \* the Map: key -> value, Absent when the Map has no entry
    disk,      \* CACHE_DIR: file name -> text, NoFile when there is no file
    status,    \* connection -> "open" | "closed"
    subs,      \* connection -> the topics (keys) the socket is subscribed to
    calls,     \* set call (numbered in the order store.set ran) -> its record
    ncalls,    \* the number of set calls accepted so far
    sent,      \* connection -> the messages sent to it by the last step
    httpOut,   \* the HTTP response produced by the last step
    ev,        \* the last step of the server
    \* useObjectStore
    wsRef,              \* wsRef.current: a socket, "none" for null
    reconnectTimerRef,  \* reconnectTimerRef.current: a timer, "none" for null
    subscriptionsRef,   \* subscriptionsRef.current: a set of keys
    timers,             \* the pending timeouts, each named by the socket
                        \* whose onclose set it
    readyState,         \* socket -> "unused" | "connecting" | "open" |
                        \* "closing" | "closed" (onclose has run)
    inbox,              \* socket -> the messages it sent that the server has
                        \* yet to handle
    nsocks,             \* the number of sockets created so far
    effect,             \* the useEffect: "idle" | "mounted" | "cleaned"
    autoReconnect       \* options.autoReconnect

serverVars == <<store, disk, status, subs, calls, ncalls, sent, httpOut, ev>>
hookVars == <<wsRef, reconnectTimerRef, subscriptionsRef, timers, readyState,
              inbox, nsocks, effect, autoReconnect>>
vars == <<serverVars, hookVars>>

CallIds == 1..MaxCalls

NoCall == [pc |-> "idle", via |-> "none", key |-> <<>>, value |-> <<>>,
           wrote |-> "pending"]

NoResponse == [status |-> 0, body |-> ErrorMsg("")]
Response(code, body) == [status |-> code, body |-> body]

Quiet == [c \in Sockets |-> <<>>]

Event(op, conn, key, call) == [op |-> op, conn |-> conn, key |-> key, call |-> call]

----------------------------------------------------------------------------
(* The parts of the handlers *)

\* Faulty variant: Map.set that keeps an existing entry.
storeSetFirstWins(key, value) ==
    IF store[key] = Absent THEN [store EXCEPT ![key] = value] ELSE store

\* store.set(key, value)
storeSet(key, value) == [store EXCEPT ![key] = value]

\* Faulty variant: a broadcast to every open connection.
SubscribersAll(key) == {c \in Sockets : status[c] = "open"}

\* The sockets subscribed to topic `key`: those server.publish delivers to.
SubscribersOf(key) == {c \in Sockets : key \in subs[c]}

\* server.publish(key, msg): one copy of msg to every subscriber of key.
publish(key, msg) ==
    [c \in Sockets |-> IF c \in SubscribersOf(key) THEN <<msg>> ELSE <<>>]

\* ws.send(msg)
send(ws, msg) == [Quiet EXCEPT ![ws] = <<msg>>]

\* Faulty variant: subscribe that never sends the value.
CurrentValueNever(key) == <<>>

\* The subscribe branch's `if (store.has(key)) ws.send({key, value})`.
CurrentValue(key) ==
    IF store[key] # Absent THEN <<KV(key, store[key])>> ELSE <<>>

\* Faulty variant: a closed socket that stays in its topics.
TopicsAfterCloseKept(ws) == subs[ws]

\* The topics of a socket once it has closed.
TopicsAfterClose(ws) == {}

\* Faulty variant: the generic error text for a missing key.
MissingKeyResponseGeneric == Response(400, InvalidFormat)

\* POST /set's response to a body without key.
MissingKeyResponse == Response(400, MissingKey)

\* POST /set's `!key`: no key field, or the empty string.
Falsy(body) == ~body.hasKey \/ body.key = <<>>

\* Faulty variant: persistKey without its try/catch, so
\* that a failed write ends the handler.
persistKeyThrows(call, ok) ==
    [call EXCEPT !.pc = IF ok THEN "resume" ELSE "done",
                 !.wrote = IF ok THEN "ok" ELSE "failed"]

\* persistKey once Bun.write has finished: a failure is caught and logged,
\* and the awaiting handler goes on either way.
persistKey(call, ok) ==
    [call EXCEPT !.pc = "resume", !.wrote = IF ok THEN "ok" ELSE "failed"]

\* Faulty variant: persistKey called without await.
ResumableEarly(call) == call.pc \in {"write", "resume"}

\* `await persistKey(...)`: the handler goes on once persistKey has returned.
Resumable(call) == call.pc = "resume"

\* The set call a handler starts: store.set has run and Bun.write is issued.
NewCall(via, key, value) ==
    [pc |-> "write", via |-> via, key |-> key, value |-> value, wrote |-> "pending"]

\* Faulty variant: a set that waits while another set's write is pending.
AcceptSetExclusive(via, key) ==
    /\ ncalls < MaxCalls
    /\ \A j \in 1..MaxCalls : calls[j].pc # "write"
    /\ store' = storeSet(key, ValueOf(ncalls + 1))
    /\ ncalls' = ncalls + 1
    /\ calls' = [calls EXCEPT ![ncalls + 1] = NewCall(via, key, ValueOf(ncalls + 1))]

\* store.set, persistKey issued: lines 145-146 and 98-99.
AcceptSet(via, key) ==
    /\ ncalls < MaxCalls
    /\ store' = storeSet(key, ValueOf(ncalls + 1))
    /\ ncalls' = ncalls + 1
    /\ calls' = [calls EXCEPT ![ncalls + 1] = NewCall(via, key, ValueOf(ncalls + 1))]

----------------------------------------------------------------------------
(* Inputs *)

\* A WebSocket payload: text JSON.parse rejects ("garbage"), the JSON text
\* `null` (data.action then throws), or an object with its action and key.
Payloads ==
    {[kind |-> "garbage", action |-> "", key |-> <<>>],
     [kind |-> "null", action |-> "", key |-> <<>>]}
    \cup [kind : {"object"},
          action : {"subscribe", "unsubscribe", "set", "get", "bogus"},
          key : Keys]

\* A WebSocket message {action, key}.
Msg(action, key) == [kind |-> "object", action |-> action, key |-> key]

\* The WebSocket messages with an action and no key field.
PayloadsNoKey ==
    {Msg(a, Undefined) : a \in {"subscribe", "unsubscribe", "set", "get"}}

\* A POST /set body: with a key, with the empty string as key, without key.
Bodies ==
    [hasKey : {TRUE}, key : Keys \cup {<<>>}] \cup [hasKey : {FALSE}, key : {<<>>}]

----------------------------------------------------------------------------
(* Init: initializeStore has run on an empty CACHE_DIR, the server listens *)
(* and the clients are connected (websocket.open only logs).  No hook is   *)
(* mounted.                                                                *)

\* useObjectStore before its first effect: the refs as useRef makes them.
HookNotMounted(option) ==
    /\ wsRef = "none"
    /\ reconnectTimerRef = "none"
    /\ subscriptionsRef = {}
    /\ timers = {}
    /\ readyState = [s \in HookSocks |-> "unused"]
    /\ inbox = [s \in HookSocks |-> <<>>]
    /\ nsocks = 0
    /\ effect = "idle"
    /\ autoReconnect = option

Init ==
    /\ store = [k \in AllKeys |-> Absent]
    /\ disk = [f \in Files |-> NoFile]
    /\ status = [c \in Sockets |-> IF c \in Conns THEN "open" ELSE "closed"]
    /\ subs = [c \in Sockets |-> {}]
    /\ calls = [i \in CallIds |-> NoCall]
    /\ ncalls = 0
    /\ sent = Quiet
    /\ httpOut = NoResponse
    /\ ev = Event("init", "none", <<>>, 0)
    /\ HookNotMounted(TRUE)

----------------------------------------------------------------------------
(* websocket.open and websocket.close *)

\* A client connects: the socket is new and has no topic.
open(ws) ==
    /\ status[ws] = "closed"
    /\ status' = [status EXCEPT ![ws] = "open"]
    /\ sent' = Quiet
    /\ httpOut' = NoResponse
    /\ ev' = Event("open", ws, <<>>, 0)
    /\ UNCHANGED <<store, disk, subs, calls, ncalls>>

close(ws) ==
    /\ status[ws] = "open"
    /\ status' = [status EXCEPT ![ws] = "closed"]
    /\ subs' = [subs EXCEPT ![ws] = TopicsAfterClose(ws)]
    /\ sent' = Quiet
    /\ httpOut' = NoResponse
    /\ ev' = Event("close", ws, <<>>, 0)
    /\ UNCHANGED <<store, disk, calls, ncalls>>

----------------------------------------------------------------------------
(* websocket.message: the branches of the handler, up to its first await *)

\* JSON.parse throws, or data is null and data.action throws: the catch
\* block sends the error.
MessageThrows(ws, m) ==
    /\ m.kind \in {"garbage", "null"}
    /\ sent' = send(ws, InvalidFormat)
    /\ ev' = Event("invalid", ws, <<>>, 0)
    /\ UNCHANGED <<store, disk, subs, calls, ncalls>>

MessageSubscribe(ws, m) ==
    /\ m.kind = "object" /\ m.action = "subscribe"
    /\ subs' = [subs EXCEPT ![ws] = @ \cup {m.key}]
    /\ sent' = [Quiet EXCEPT ![ws] = CurrentValue(m.key)]
    /\ ev' = Event("subscribe", ws, m.key, 0)
    /\ UNCHANGED <<store, disk, calls, ncalls>>

\* Faulty variant: unsubscribe that drops every topic of the socket.
MessageUnsubscribeAll(ws, m) ==
    /\ m.kind = "object" /\ m.action = "unsubscribe"
    /\ subs' = [subs EXCEPT ![ws] = {}]
    /\ sent' = Quiet
    /\ ev' = Event("unsubscribe", ws, m.key, 0)
    /\ UNCHANGED <<store, disk, calls, ncalls>>

MessageUnsubscribe(ws, m) ==
    /\ m.kind = "object" /\ m.action = "unsubscribe"
    /\ subs' = [subs EXCEPT ![ws] = @ \ {m.key}]
    /\ sent' = Quiet
    /\ ev' = Event("unsubscribe", ws, m.key, 0)
    /\ UNCHANGED <<store, disk, calls, ncalls>>

MessageSet(ws, m) ==
    /\ m.kind = "object" /\ m.action = "set"
    /\ AcceptSet("ws", m.key)
    /\ sent' = Quiet
    /\ ev' = Event("set", ws, m.key, ncalls + 1)
    /\ UNCHANGED <<disk, subs>>

\* Faulty variant: a get that also subscribes the caller to the key.
MessageGetSubscribes(ws, m) ==
    /\ m.kind = "object" /\ m.action = "get"
    /\ subs' = [subs EXCEPT ![ws] = @ \cup {m.key}]
    /\ sent' = send(ws, KV(m.key, OrNull(store[m.key])))
    /\ ev' = Event("get", ws, m.key, 0)
    /\ UNCHANGED <<store, disk, calls, ncalls>>

MessageGet(ws, m) ==
    /\ m.kind = "object" /\ m.action = "get"
    /\ sent' = send(ws, KV(m.key, OrNull(store[m.key])))
    /\ ev' = Event("get", ws, m.key, 0)
    /\ UNCHANGED <<store, disk, subs, calls, ncalls>>

\* No branch of the if-chain matches and nothing throws: the handler ends.
MessageOther(ws, m) ==
    /\ m.kind = "object"
    /\ m.action \notin {"subscribe", "unsubscribe", "set", "get"}
    /\ sent' = Quiet
    /\ ev' = Event("other", ws, <<>>, 0)
    /\ UNCHANGED <<store, disk, subs, calls, ncalls>>

message(ws, m) ==
    /\ status[ws] = "open"
    /\ status' = status
    /\ httpOut' = NoResponse
    /\ \/ MessageThrows(ws, m)
       \/ MessageSubscribe(ws, m)
       \/ MessageUnsubscribe(ws, m)
       \/ MessageSet(ws, m)
       \/ MessageGet(ws, m)
       \/ MessageOther(ws, m)

----------------------------------------------------------------------------
(* fetch: GET /get/{key} and POST /set, up to the first await *)

HttpGet(key) ==
    /\ httpOut' = Response(200, KV(key, OrNull(store[key])))
    /\ sent' = Quiet
    /\ ev' = Event("httpGet", "http", key, 0)
    /\ UNCHANGED <<store, disk, status, subs, calls, ncalls>>

HttpSetMissingKey(body) ==
    /\ Falsy(body)
    /\ httpOut' = MissingKeyResponse
    /\ sent' = Quiet
    /\ ev' = Event("httpSetNoKey", "http", body.key, 0)
    /\ UNCHANGED <<store, disk, status, subs, calls, ncalls>>

HttpSet(body) ==
    /\ ~Falsy(body)
    /\ AcceptSet("http", body.key)
    /\ httpOut' = NoResponse
    /\ sent' = Quiet
    /\ ev' = Event("httpSet", "http", body.key, ncalls + 1)
    /\ UNCHANGED <<disk, status, subs>>

----------------------------------------------------------------------------
(* A set call after its accept: Bun.write finishes, the handler goes on *)

\* Bun.write of call i finishes: the file holds the text, or the write
\* failed and persistKey's catch logged it.
WriteFinishes(i, ok) ==
    /\ calls[i].pc = "write"
    /\ disk' = IF ok
               THEN [disk EXCEPT ![FilePath(calls[i].key)] = Stringify(calls[i].value)]
               ELSE disk
    /\ calls' = [calls EXCEPT ![i] = persistKey(calls[i], ok)]
    /\ sent' = Quiet
    /\ httpOut' = NoResponse
    /\ ev' = Event(IF ok THEN "written" ELSE "writeFailed", calls[i].via, calls[i].key, i)
    /\ UNCHANGED <<store, status, subs, ncalls>>

\* The handler of call i goes on after its await: server.publish, and the
\* HTTP response of a POST /set.
Resume(i) ==
    /\ Resumable(calls[i])
    /\ sent' = publish(calls[i].key, KV(calls[i].key, calls[i].value))
    /\ httpOut' = IF calls[i].via = "http"
                  THEN Response(200, KV(calls[i].key, calls[i].value))
                  ELSE NoResponse
    /\ calls' = [calls EXCEPT ![i].pc = "done"]
    /\ ev' = Event("publish", calls[i].via, calls[i].key, i)
    /\ UNCHANGED <<store, disk, status, subs, ncalls>>

----------------------------------------------------------------------------
(* Restart: the process stops and starts again on the same CACHE_DIR *)

\* The values initializeStore may leave under `key`: the value of a file
\* the glob finds, whose text is JSON and whose name maps to key (the one
\* scanned last wins; a file that is no JSON is skipped).
LoadedValues(key) ==
    {ParseJson(disk[f]) : f \in {g \in Files : /\ Parses(disk[g])
                                               /\ GlobMatches(g)
                                               /\ KeyOfFile(g) = key}}

\* initializeStore: the stores a load of the files can produce.
initializeStore ==
    LET loaded(k) == IF LoadedValues(k) = {} THEN {Absent} ELSE LoadedValues(k)
        several == {k \in AllKeys : Cardinality(loaded(k)) > 1}
        only(k) == CHOOSE v \in loaded(k) : TRUE
        picks == {p \in [several -> UNION {loaded(k) : k \in several}] :
                     \A k \in several : p[k] \in loaded(k)}
    IN  {[k \in AllKeys |-> IF k \in several THEN p[k] ELSE only(k)] : p \in picks}

\* The handlers in flight die with the process, the sockets are gone, and
\* the new process loads the store from the files.
Restart ==
    /\ store' \in initializeStore
    /\ status' = [c \in Sockets |-> "closed"]
    /\ subs' = [c \in Sockets |-> {}]
    /\ calls' = [i \in CallIds |->
                    IF calls[i].pc \in {"write", "resume"}
                    THEN [calls[i] EXCEPT !.pc = "dead"]
                    ELSE calls[i]]
    /\ sent' = Quiet
    /\ httpOut' = NoResponse
    /\ ev' = Event("restart", "none", <<>>, 0)
    /\ UNCHANGED <<disk, ncalls>>

----------------------------------------------------------------------------
(* Specifications *)

Next ==
    \/ \E c \in Conns : close(c) /\ UNCHANGED hookVars
    \/ \E c \in Conns, m \in Payloads : message(c, m) /\ UNCHANGED hookVars
    \/ \E k \in Keys : HttpGet(k) /\ UNCHANGED hookVars
    \/ \E b \in Bodies : HttpSetMissingKey(b) /\ UNCHANGED hookVars
    \/ \E b \in Bodies : HttpSet(b) /\ UNCHANGED hookVars
    \/ \E i \in CallIds, ok \in BOOLEAN : WriteFinishes(i, ok) /\ UNCHANGED hookVars
    \/ \E i \in CallIds : Resume(i) /\ UNCHANGED hookVars

\* One life of the server process.  Which of several finished writes has
\* its handler go on first is left open.
Spec == Init /\ [][Next]_vars

\* The server process with restarts.
NextRestart ==
    \/ Next
    \/ Restart /\ UNCHANGED hookVars

SpecRestart == Init /\ [][NextRestart]_vars

\* Clients that subscribe before the first set and stay subscribed: every
\* subscriber is subscribed throughout every set call.  The continuation of
\* a finished write runs before the next write is seen to finish, so the
\* broadcasts come in the order in which the writes finish.  No write fails.
SubscribeFirst(ws, m) ==
    /\ ncalls = 0
    /\ m.action = "subscribe"
    /\ message(ws, m)

SetByMessage(ws, m) ==
    /\ m.action = "set"
    /\ message(ws, m)

FinishInTurn(i) ==
    /\ \A j \in CallIds : calls[j].pc # "resume"
    /\ WriteFinishes(i, TRUE)

NextOrder ==
    \/ \E c \in Conns, m \in Payloads : SubscribeFirst(c, m) /\ UNCHANGED hookVars
    \/ \E c \in Conns, m \in Payloads : SetByMessage(c, m) /\ UNCHANGED hookVars
    \/ \E b \in Bodies : HttpSet(b) /\ UNCHANGED hookVars
    \/ \E i \in CallIds : FinishInTurn(i) /\ UNCHANGED hookVars
    \/ \E i \in CallIds : Resume(i) /\ UNCHANGED hookVars

SpecOrder == Init /\ [][NextOrder]_vars

\* Messages without a key field.  ws.subscribe, ws.unsubscribe and
\* server.publish take a topic that is a string: the runtime rejects
\* undefined by throwing, and the throw lands in the handler's catch block.
MessageTopicThrows(ws, m) ==
    /\ m.key = Undefined /\ m.action \in {"subscribe", "unsubscribe"}
    /\ sent' = send(ws, InvalidFormat)
    /\ ev' = Event("invalid", ws, Undefined, 0)
    /\ UNCHANGED <<store, disk, subs, calls, ncalls>>

\* The set branch with key undefined: store.set(undefined, value) and
\* persistKey(undefined, value) run as for any key.  The call keeps the
\* socket, which its catch block uses.
MessageSetNoKey(ws, m) ==
    /\ m.key = Undefined /\ m.action = "set"
    /\ AcceptSet(ws, Undefined)
    /\ sent' = Quiet
    /\ ev' = Event("set", ws, Undefined, ncalls + 1)
    /\ UNCHANGED <<disk, subs>>

\* The get branch with key undefined: store.get(undefined) ?? null is sent.
MessageGetNoKey(ws, m) ==
    /\ m.key = Undefined
    /\ MessageGet(ws, m)

messageNoKey(ws, m) ==
    /\ status[ws] = "open"
    /\ status' = status
    /\ httpOut' = NoResponse
    /\ \/ MessageTopicThrows(ws, m)
       \/ MessageSetNoKey(ws, m)
       \/ MessageGetNoKey(ws, m)

\* The handler of a set without key goes on after its await:
\* server.publish(undefined, ...) throws and the catch block sends the
\* error to the socket (a send on a closed socket is dropped).
ResumeNoKey(i) ==
    /\ Resumable(calls[i])
    /\ calls[i].key = Undefined
    /\ sent' = IF status[calls[i].via] = "open"
               THEN send(calls[i].via, InvalidFormat)
               ELSE Quiet
    /\ httpOut' = NoResponse
    /\ calls' = [calls EXCEPT ![i].pc = "done"]
    /\ ev' = Event("publishThrows", calls[i].via, Undefined, i)
    /\ UNCHANGED <<store, disk, status, subs, ncalls>>

NextNoKey ==
    \/ \E c \in Conns : close(c) /\ UNCHANGED hookVars
    \/ \E c \in Conns, m \in Payloads : SubscribeFirst(c, m) /\ UNCHANGED hookVars
    \/ \E c \in Conns, m \in PayloadsNoKey : messageNoKey(c, m) /\ UNCHANGED hookVars
    \/ \E i \in CallIds, ok \in BOOLEAN : WriteFinishes(i, ok) /\ UNCHANGED hookVars
    \/ \E i \in CallIds : ResumeNoKey(i) /\ UNCHANGED hookVars

SpecNoKey == Init /\ [][NextNoKey]_vars

\* The start of the process on a CACHE_DIR that holds any files: for each
\* file none, a text that is no JSON, or the JSON of a value.
Texts == {NoFile, Corrupt, Stringify(ValueOf(1)), Stringify(ValueOf(2))}

InitStartup ==
    /\ store = [k \in AllKeys |-> Absent]
    /\ disk \in [Files -> Texts]
    /\ status = [c \in Sockets |-> "closed"]
    /\ subs = [c \in Sockets |-> {}]
    /\ calls = [i \in CallIds |-> NoCall]
    /\ ncalls = 0
    /\ sent = Quiet
    /\ httpOut = NoResponse
    /\ ev = Event("boot", "none", <<>>, 0)
    /\ HookNotMounted(TRUE)

\* `await initializeStore()` at the top of the module.
Startup ==
    /\ ev.op = "boot"
    /\ store' \in initializeStore
    /\ sent' = Quiet
    /\ httpOut' = NoResponse
    /\ ev' = Event("loaded", "none", <<>>, 0)
    /\ UNCHANGED <<disk, status, subs, calls, ncalls>>

\* Bun.serve runs after the await: the handlers exist once the load is over.
Serving == ev.op # "boot"

NextStartup ==
    \/ Startup /\ UNCHANGED hookVars
    \/ \E c \in Conns : Serving /\ open(c) /\ UNCHANGED hookVars
    \/ \E c \in Conns, k \in StringKeys : Serving /\ message(c, Msg("get", k)) /\ UNCHANGED hookVars
    \/ \E k \in StringKeys : Serving /\ HttpGet(k) /\ UNCHANGED hookVars

SpecStartup == InitStartup /\ [][NextStartup]_vars

----------------------------------------------------------------------------
(* useObjectStore: the React hook, a client of the server.  Its set and    *)
(* get only pass a message to sendMessage and touch no ref; onmessage only *)
(* updates the `data` state.  They are left out.                           *)

\* WebSocket.close() on wsRef.current: a socket that is connecting or open
\* starts closing, and its onclose runs later.
CloseSocket(rs, ref) ==
    IF ref # "none" /\ rs[ref] \in {"connecting", "open"}
    THEN [rs EXCEPT ![ref] = "closing"]
    ELSE rs

\* `if (reconnectTimerRef.current) clearTimeout(reconnectTimerRef.current)`
ClearTimeout(ts, ref) == ts \ {ref}

\* sendMessage: the message goes out when wsRef.current is an open socket,
\* and is dropped otherwise.
sendMessage(m) ==
    inbox' = IF wsRef # "none" /\ readyState[wsRef] = "open"
             THEN [inbox EXCEPT ![wsRef] = Append(@, m)]
             ELSE inbox

\* The socket sendMessage would use has room for one more message.
CanSend ==
    IF wsRef = "none" THEN TRUE
    ELSE readyState[wsRef] # "open" \/ Len(inbox[wsRef]) < MaxInbox

\* Faulty variant: an onopen that does not re-subscribe.
ResubscriptionsNone(keys) == <<>>

\* onopen's subscriptionsRef.current.forEach: one subscribe per key.
RECURSIVE Resubscriptions(_)
Resubscriptions(keys) ==
    IF keys = {} THEN <<>>
    ELSE LET k == CHOOSE x \in keys : TRUE
         IN  <<Msg("subscribe", k)>> \o Resubscriptions(keys \ {k})

\* connect(), run with the pending timers ts and the sockets' states rs:
\* the referenced timer is cleared, the socket of wsRef is told to close,
\* and a new socket is created and stored in wsRef.
connect(ts, rs) ==
    /\ nsocks < MaxSockets
    /\ timers' = ClearTimeout(ts, reconnectTimerRef)
    /\ reconnectTimerRef' = "none"
    /\ readyState' = [CloseSocket(rs, wsRef) EXCEPT ![SockNames[nsocks + 1]] = "connecting"]
    /\ wsRef' = SockNames[nsocks + 1]
    /\ nsocks' = nsocks + 1

\* The useEffect runs for the first time: connect().
Mount ==
    /\ effect = "idle"
    /\ effect' = "mounted"
    /\ connect(timers, readyState)
    /\ UNCHANGED <<subscriptionsRef, inbox, autoReconnect>>
    /\ UNCHANGED serverVars

\* The useEffect runs again (its dependency `connect` changed, or React
\* re-runs effects as in StrictMode): the cleanup, then connect().
EffectRerun ==
    /\ effect = "mounted"
    /\ connect(ClearTimeout(timers, reconnectTimerRef), CloseSocket(readyState, wsRef))
    /\ UNCHANGED <<subscriptionsRef, inbox, effect, autoReconnect>>
    /\ UNCHANGED serverVars

\* The component unmounts: the cleanup of the useEffect.
Unmount ==
    /\ effect = "mounted"
    /\ effect' = "cleaned"
    /\ timers' = ClearTimeout(timers, reconnectTimerRef)
    /\ readyState' = CloseSocket(readyState, wsRef)
    /\ UNCHANGED <<wsRef, reconnectTimerRef, subscriptionsRef, inbox, nsocks, autoReconnect>>
    /\ UNCHANGED serverVars

subscribe(key) ==
    /\ effect = "mounted"
    /\ CanSend
    /\ subscriptionsRef' = subscriptionsRef \cup {key}
    /\ sendMessage(Msg("subscribe", key))
    /\ UNCHANGED <<wsRef, reconnectTimerRef, timers, readyState, nsocks, effect, autoReconnect>>
    /\ UNCHANGED serverVars

unsubscribe(key) ==
    /\ effect = "mounted"
    /\ CanSend
    /\ subscriptionsRef' = subscriptionsRef \ {key}
    /\ sendMessage(Msg("unsubscribe", key))
    /\ UNCHANGED <<wsRef, reconnectTimerRef, timers, readyState, nsocks, effect, autoReconnect>>
    /\ UNCHANGED serverVars

\* The connection of socket s is made: the server's websocket.open, then
\* the socket's onopen, which re-subscribes.
onopen(s) ==
    /\ readyState[s] = "connecting"
    /\ open(s)
    /\ readyState' = [readyState EXCEPT ![s] = "open"]
    /\ inbox' = [inbox EXCEPT ![s] = Resubscriptions(subscriptionsRef)]
    /\ UNCHANGED <<wsRef, reconnectTimerRef, subscriptionsRef, timers, nsocks, effect, autoReconnect>>

\* The connection of socket s ends (it was told to close, it failed to
\* connect, or the connection dropped): the server's websocket.close when
\* the server had the connection, then the socket's onclose.
onclose(s) ==
    /\ readyState[s] \in {"connecting", "open", "closing"}
    /\ IF status[s] = "open" THEN close(s) ELSE UNCHANGED serverVars
    /\ readyState' = [readyState EXCEPT ![s] = "closed"]
    /\ inbox' = [inbox EXCEPT ![s] = <<>>]
    /\ wsRef' = "none"
    /\ IF autoReconnect
       THEN timers' = timers \cup {s} /\ reconnectTimerRef' = s
       ELSE UNCHANGED <<timers, reconnectTimerRef>>
    /\ UNCHANGED <<subscriptionsRef, nsocks, effect, autoReconnect>>

\* The timeout set by the onclose of socket t fires: connect().
reconnect(t) ==
    /\ t \in timers
    /\ connect(timers \ {t}, readyState)
    /\ UNCHANGED <<subscriptionsRef, inbox, effect, autoReconnect>>
    /\ UNCHANGED serverVars

\* The server handles the next message of socket s: websocket.message.
ServerHandles(s) ==
    /\ inbox[s] # <<>>
    /\ message(s, Head(inbox[s]))
    /\ inbox' = [inbox EXCEPT ![s] = Tail(@)]
    /\ UNCHANGED <<wsRef, reconnectTimerRef, subscriptionsRef, timers, readyState, nsocks, effect, autoReconnect>>

\* The keys the component subscribes to and unsubscribes from.
HookKeys == Keys

\* A server without other clients, and a component that uses the hook with
\* either value of autoReconnect.
InitHook ==
    /\ store = [k \in AllKeys |-> Absent]
    /\ disk = [f \in Files |-> NoFile]
    /\ status = [c \in Sockets |-> "closed"]
    /\ subs = [c \in Sockets |-> {}]
    /\ calls = [i \in CallIds |-> NoCall]
    /\ ncalls = 0
    /\ sent = Quiet
    /\ httpOut = NoResponse
    /\ ev = Event("init", "none", <<>>, 0)
    /\ \E option \in BOOLEAN : HookNotMounted(option)

NextHook ==
    \/ Mount
    \/ EffectRerun
    \/ Unmount
    \/ \E k \in HookKeys : subscribe(k)
    \/ \E k \in HookKeys : unsubscribe(k)
    \/ \E s \in HookSocks : onopen(s)
    \/ \E s \in HookSocks : onclose(s)
    \/ \E t \in HookSocks : reconnect(t)
    \/ \E s \in HookSocks : ServerHandles(s)

SpecHook == InitHook /\ [][NextHook]_vars

----------------------------------------------------------------------------
(* Properties *)

\* The set call on `key` that store.set ran last, 0 when there is none.
LastCallOn(key) ==
    LET on == {i \in 1..ncalls : calls[i].key = key}
    IN  IF on = {} THEN 0 ELSE CHOOSE i \in on : \A j \in on : j <= i

\* What a get of `key` is to return: the value of the last set on it, null
\* when it was never set.
LastValue(key) ==
    IF LastCallOn(key) = 0 THEN JNull ELSE calls[LastCallOn(key)].value

\* What a broadcast of call i is to deliver: one {key, value} to every
\* connection subscribed to the key, nothing to the others.
Broadcast(i, topics) ==
    [c \in Sockets |-> IF calls[i].key \in topics[c]
                     THEN <<KV(calls[i].key, calls[i].value)>>
                     ELSE <<>>]

\* C1: a get (WebSocket 'get' or GET /get/{key}) returns the value of the
\* set on that key that the store accepted last, whatever sets are in
\* flight, and {key, value: null} for a key that was never set.
LastWriteWins ==
    /\ ev.op = "get" => sent = send(ev.conn, KV(ev.key, LastValue(ev.key)))
    /\ ev.op = "httpGet" => httpOut = Response(200, KV(ev.key, LastValue(ev.key)))

\* Two sets on one key, both still in flight, then a get that returns the
\* value of the second.
LastWriteWinsWitness ==
    /\ ev.op = "get"
    /\ ncalls = 2
    /\ calls[1].key = ev.key /\ calls[2].key = ev.key
    /\ calls[1].pc = "write" /\ calls[2].pc = "write"
    /\ sent[ev.conn] = <<KV(ev.key, ValueOf(2))>>

\* C2: the broadcast of a set call delivers exactly one {k, v} to every
\* connection subscribed to k at that moment and nothing to any other
\* connection, and a set call broadcasts once: only the step from "resume"
\* to "done" broadcasts, and a call that is done stays done.
ExactlyOneNotification ==
    [][\A i \in CallIds :
          /\ (ev'.op = "publish" /\ ev'.call = i) =>
                /\ calls[i].pc = "resume" /\ calls'[i].pc = "done"
                /\ sent' = Broadcast(i, subs)
                /\ subs' = subs
          /\ calls[i].pc = "done" => calls'[i].pc = "done"]_vars

\* A set over the WebSocket is broadcast to a subscriber of its key while
\* an open connection subscribed to the other key only receives nothing.
ExactlyOneNotificationWitness ==
    /\ ev.op = "publish"
    /\ calls[ev.call].via = "ws"
    /\ \E c, d \in Conns :
          /\ sent[c] = <<KV(ev.key, calls[ev.call].value)>>
          /\ status[d] = "open" /\ subs[d] # {} /\ ev.key \notin subs[d]
          /\ sent[d] = <<>>

\* C3: with every subscriber subscribed throughout (SpecOrder), the
\* broadcast of a set call on k never comes after the broadcast of a set
\* call on k that the store accepted later.
NotificationsInAcceptOrder ==
    ev.op = "publish" =>
        \A j \in CallIds :
            (j > ev.call /\ calls[j].key = ev.key /\ calls[j].pc = "done")
                => sent = Quiet

\* C4: subscribe registers the subscription and, in the same step, sends the
\* connection exactly one {k, current store value} when the store has an
\* entry for k, and nothing when it has none; no other connection is sent
\* anything.
SubscribeSendsCurrent ==
    ev.op = "subscribe" =>
        /\ ev.key \in subs[ev.conn]
        /\ sent = [Quiet EXCEPT ![ev.conn] =
                      IF store[ev.key] = Absent THEN <<>>
                      ELSE <<KV(ev.key, store[ev.key])>>]

\* A subscribe while a set on the key is in flight: the subscriber is sent
\* the value of that set at once.
SubscribeSendsCurrentWitness ==
    /\ ev.op = "subscribe"
    /\ \E i \in CallIds : /\ calls[i].key = ev.key
                          /\ calls[i].pc = "write"
                          /\ sent[ev.conn] = <<KV(ev.key, calls[i].value)>>

RestartRoundTrip ==
    ev.op = "restart" =>
        \A k \in Keys :
            (LastCallOn(k) # 0 /\ calls[LastCallOn(k)].wrote = "ok")
                => OrNull(store[k]) = LastValue(k)

\* C7: a payload that does not parse and a message with an unrecognized
\* action both make the server send {error: "Invalid message format"} to the
\* sender, and leave the store, the files and the subscriptions unchanged.
MalformedGetsError ==
    [][ev'.op \in {"invalid", "other"} =>
          /\ sent' = send(ev'.conn, InvalidFormat)
          /\ UNCHANGED <<store, disk, subs>>]_vars

\* C8: POST /set without key answers 400 "Missing key", which is not the
\* generic error, and changes nothing: no store entry, no file, no
\* subscription, no set call started, no message sent.
MissingKeyRejected ==
    [][ev'.op = "httpSetNoKey" =>
          /\ httpOut' = Response(400, ErrorMsg("Missing key"))
          /\ httpOut'.body # InvalidFormat
          /\ sent' = Quiet
          /\ UNCHANGED <<store, disk, status, subs, calls, ncalls>>]_vars

\* POST /set without key, with a store entry and a subscription in place.
MissingKeyRejectedWitness ==
    /\ ev.op = "httpSetNoKey"
    /\ httpOut.status = 400
    /\ \E k \in Keys : store[k] # Absent
    /\ \E c \in Conns : subs[c] # {}

\* C9: a failed disk write leaves the store and the connections as they
\* are and lets the handler go on; its broadcast then reaches every
\* subscriber of the key and a POST /set is answered {k, v}.
FailedWriteStillPublishes ==
    [][/\ ev'.op = "writeFailed" =>
            /\ calls'[ev'.call].pc = "resume"
            /\ UNCHANGED <<store, status, subs>>
       /\ (ev'.op = "publish" /\ calls[ev'.call].wrote = "failed") =>
            /\ sent' = Broadcast(ev'.call, subs)
            /\ calls[ev'.call].via = "http" =>
                  httpOut' = Response(200, KV(ev'.key, calls[ev'.call].value))
            /\ UNCHANGED <<store, status, subs>>]_vars

\* A POST /set whose disk write failed: the subscriber gets the broadcast
\* and the caller the response.
FailedWriteStillPublishesWitness ==
    /\ ev.op = "publish"
    /\ calls[ev.call].wrote = "failed"
    /\ calls[ev.call].via = "http"
    /\ httpOut = Response(200, KV(ev.key, calls[ev.call].value))
    /\ \E c \in Conns : sent[c] = <<KV(ev.key, calls[ev.call].value)>>

\* C10: a set call is broadcast and acknowledged only after its own disk
\* write has finished, and its disk write finishes only after store.set
\* has made an entry for the key.
WriteBeforePublish ==
    /\ \A i \in CallIds :
          /\ calls[i].pc = "done" => calls[i].wrote \in {"ok", "failed"}
          /\ calls[i].pc = "write" => calls[i].wrote = "pending"
          /\ calls[i].wrote \in {"ok", "failed"} => store[calls[i].key] # Absent
    /\ ev.op = "publish" => calls[ev.call].wrote \in {"ok", "failed"}

\* A POST /set answered after its write succeeded, the file holding the
\* value.
WriteBeforePublishWitness ==
    /\ ev.op = "publish"
    /\ calls[ev.call].via = "http"
    /\ calls[ev.call].wrote = "ok"
    /\ httpOut.status = 200
    /\ disk[FilePath(ev.key)] = Stringify(calls[ev.call].value)

\* C11: a get (WebSocket 'get' or GET /get/{key}) changes neither the
\* store, the files, the subscriptions nor the set calls in flight, and
\* sends nothing to anyone but the caller; the caller's subscriptions are
\* what they were, so that a later broadcast on the key reaches the caller
\* only when it subscribed.
GetIsReadOnly ==
    [][ev'.op \in {"get", "httpGet"} =>
          /\ UNCHANGED <<store, disk, status, subs, calls, ncalls>>
          /\ \A c \in Conns : c # ev'.conn => sent'[c] = <<>>]_vars

\* A get of a key by a connection that is not subscribed to it, answered
\* with the value of a set that is still in flight on that key, while
\* another connection is subscribed to the key.
GetIsReadOnlyWitness ==
    /\ ev.op = "get"
    /\ ev.key \notin subs[ev.conn]
    /\ \E c \in Conns : ev.key \in subs[c]
    /\ \E i \in CallIds : /\ calls[i].key = ev.key
                          /\ calls[i].pc = "write"
                          /\ sent[ev.conn] = <<KV(ev.key, calls[i].value)>>

\* C12: a connection is subscribed to k exactly when its last event among
\* subscribe(k), unsubscribe(k) and close is subscribe(k).  Step by step:
\* no connection is subscribed at the start; a subscribe(k) makes the
\* connection a subscriber of k, an unsubscribe(k) or a close makes it none,
\* and no other step changes whether it is one.  A repeated subscribe and
\* an unsubscribe of a non-member therefore leave the subscriptions as
\* they are.
MembershipFollowsLastEvent ==
    [][\A c \in Conns, k \in Keys :
          (k \in subs'[c]) <=>
              IF ev'.op = "subscribe" /\ ev'.conn = c /\ ev'.key = k THEN TRUE
              ELSE IF ev'.op = "unsubscribe" /\ ev'.conn = c /\ ev'.key = k THEN FALSE
              ELSE IF ev'.op = "close" /\ ev'.conn = c THEN FALSE
              ELSE k \in subs[c]]_vars

\* An unsubscribe of one key by a connection that keeps its subscription
\* to the other key, while the other connection stays subscribed to the
\* key given up.
MembershipFollowsLastEventWitness ==
    /\ ev.op = "unsubscribe"
    /\ ev.key \notin subs[ev.conn]
    /\ subs[ev.conn] # {}
    /\ \E c \in Conns : c # ev.conn /\ ev.key \in subs[c]

\* C13: when no set call is in flight and no disk write has failed, the
\* file of every key that was set holds the store's value of the key.
QuiescentDiskMatchesStore ==
    (/\ \A i \in CallIds : calls[i].pc \in {"idle", "done"}
     /\ \A i \in CallIds : calls[i].wrote # "failed")
        => \A k \in Keys :
              LastCallOn(k) # 0 => disk[FilePath(k)] = Stringify(store[k])

\* C17: while the disk write of a set call is pending, every open
\* connection can still get, subscribe, unsubscribe and (up to MaxCalls
\* calls) set on every key, GET /get/ and POST /set are served, and every
\* other set call can finish its write and go on to its broadcast; a get
\* or a subscribe on the key of the pending call, when that call is the
\* last on the key, is answered with its value.
StalledWriteBlocksNothing ==
    \A i \in CallIds :
        calls[i].pc = "write" =>
            /\ \A c \in Conns, k \in Keys :
                  status[c] = "open" =>
                      /\ ENABLED (message(c, Msg("get", k)) /\ UNCHANGED hookVars)
                      /\ ENABLED (message(c, Msg("subscribe", k)) /\ UNCHANGED hookVars)
                      /\ ENABLED (message(c, Msg("unsubscribe", k)) /\ UNCHANGED hookVars)
                      /\ ncalls < MaxCalls =>
                            ENABLED (message(c, Msg("set", k)) /\ UNCHANGED hookVars)
            /\ \A k \in Keys :
                  /\ ENABLED (HttpGet(k) /\ UNCHANGED hookVars)
                  /\ ncalls < MaxCalls =>
                        ENABLED (HttpSet([hasKey |-> TRUE, key |-> k])
                                    /\ UNCHANGED hookVars)
            /\ \A j \in CallIds :
                  /\ calls[j].pc = "write" => ENABLED (WriteFinishes(j, TRUE) /\ UNCHANGED hookVars)
                  /\ calls[j].pc = "resume" => ENABLED (Resume(j) /\ UNCHANGED hookVars)
            /\ (ev.op \in {"get", "subscribe"} /\ LastCallOn(ev.key) = i) =>
                  sent[ev.conn] = <<KV(ev.key, calls[i].value)>>

\* A second set call was accepted, written and broadcast to a subscriber
\* while the write of the first call on the same key is still pending.
StalledWriteBlocksNothingWitness ==
    /\ ev.op = "publish" /\ ev.call = 2
    /\ calls[1].pc = "write"
    /\ calls[1].key = calls[2].key
    /\ \E c \in Conns : sent[c] = <<KV(ev.key, calls[2].value)>>

\* C15: persistKey writes the records of two distinct keys to two distinct
\* files, and the key initializeStore derives from the name of the file
\* persistKey wrote for a key is that key.
KeyFileRoundTrip ==
    /\ \A i, j \in CallIds :
          (calls[i].wrote = "ok" /\ calls[j].wrote = "ok"
              /\ calls[i].key # calls[j].key)
                  => FilePath(calls[i].key) # FilePath(calls[j].key)
    /\ \A i \in CallIds :
          calls[i].wrote = "ok" => KeyOfFile(FilePath(calls[i].key)) = calls[i].key

\* C16: nothing is handled before the load is over, and from then on the
\* store holds, for every key, the value of the key's record when the
\* record is JSON and no entry when it is not or when there is no record.
StartupLoadsRecords ==
    [][/\ ev.op = "boot" => ev'.op = "loaded"
       /\ ev'.op # "boot" =>
            \A k \in StringKeys :
                store'[k] = IF Parses(disk'[FilePath(k)])
                            THEN ParseJson(disk'[FilePath(k)])
                            ELSE Absent]_vars

\* C14: a WebSocket message with action subscribe, unsubscribe, set or get
\* and no key is answered with {error: "Invalid message format"} in the
\* step that handles it, which changes neither the store, the files nor
\* the subscriptions; no step ever makes a store entry or a file for the
\* missing key.
KeylessGetsError ==
    [][/\ (ev'.key = Undefined /\ ev'.op \in {"invalid", "set", "get"}) =>
            /\ sent' = send(ev'.conn, InvalidFormat)
            /\ UNCHANGED <<store, disk, subs>>
       /\ store'[Undefined] = Absent
       /\ disk'[FilePath(Undefined)] = NoFile]_vars

\* The sockets of the hook that are connecting or open.
Live == {s \in HookSocks : readyState[s] \in {"connecting", "open"}}

\* C18: at most one socket of the hook is connecting or open; such a socket
\* is the one created last and wsRef refers to it; wsRef never refers to
\* an older socket.
SingleConnection ==
    /\ Cardinality(Live) <= 1
    /\ \A s \in Live : s = SockNames[nsocks] /\ wsRef = s
    /\ wsRef # "none" => wsRef = SockNames[nsocks]

\* C19: from the cleanup of the unmount on, the hook creates no socket and
\* no timeout is pending.
UnmountIsFinal ==
    [][effect' = "cleaned" => (nsocks' = nsocks /\ timers' = {})]_vars

====
